---- MODULE Spec2Model ----
(***************************************************************************)
(* Model of the admin dashboard backend in src/api/main.py: the customer   *)
(* (enrollment) lifecycle with its financial transactions, the partnership *)
(* codes and their statistics, the financial window sums, and the user     *)
(* permission endpoints.                                                   *)
(*                                                                         *)
(* Tables are sequences; a row's id is its position (autoincrement keys).  *)
(* Optional values (Python None) are sets: {} is None, {v} is the value v. *)
(* Datetimes are whole hours counted from proleptic ordinal day 0, so that *)
(* ordinal * 24 is midnight of that day (datetime.toordinal()).            *)
(* Amounts are integers.                                                   *)
(*                                                                         *)
(* A handler that reaches the database more than once is a sequence of     *)
(* steps of the worker serving the request, one step per query or commit;  *)
(* steps of different workers interleave.                                  *)
(***************************************************************************)
EXTENDS Integers, Sequences, FiniteSets, TLC

\* ------------------------------------------------------------------ bounds

\* Rows the customer table may hold.
MaxCustomers == 2
\* Clock advances (of 12 hours each) after the start of the run.
MaxTicks == 5
\* Rows of the transaction table that get_financials is run on.
MaxRows == 2

\* ------------------------------------------------------------------ inputs

\* Request workers that may be inside a handler at the same time.
Workers == {"w1", "w2"}

\* CustomerCreate.prices: lists of non-negative amounts.
PriceLists == {<<>>, <<100>>, <<50, 70>>}

\* Code strings a request may carry.
CodeNames == {"PARTNER10", "SUMMER"}

\* Emails a request may carry; the first two are the protected accounts.
Emails == {"gokhan@kampus.com", "emre@kampus.com", "ali@kampus.com"}

Optional(S) == {{}} \cup {{x} : x \in S}

\* The value of a provided optional.
Value(opt) == CHOOSE v \in opt : TRUE

\* Python truthiness of an Optional[str]: None and "" are falsy.
Truthy(opt) == opt # {} /\ opt # {""}

\* ------------------------------------------------------------ sum, json

RECURSIVE Sum(_)
Sum(xs) == IF xs = <<>> THEN 0 ELSE Head(xs) + Sum(Tail(xs))

Digits == <<"0", "1", "2", "3", "4", "5", "6", "7", "8", "9">>

RECURSIVE IntToStr(_)
IntToStr(n) ==
    IF n < 10 THEN <<Digits[n + 1]>>
    ELSE IntToStr(n \div 10) \o <<Digits[(n % 10) + 1]>>

RECURSIVE JoinItems(_)
JoinItems(xs) ==
    IF xs = <<>> THEN <<>>
    ELSE IF Len(xs) = 1 THEN IntToStr(xs[1])
    ELSE IntToStr(xs[1]) \o <<",", " ">> \o JoinItems(Tail(xs))

\* json.dumps of a list of integers: the text "[50, 70]", one character per
\* element.
json_dumps(xs) == <<"[">> \o JoinItems(xs) \o <<"]">>

IsDigit(c) == \E d \in 1..10 : Digits[d] = c

DigitVal(c) == (CHOOSE d \in 1..10 : Digits[d] = c) - 1

\* Scan text from position i; cur is the number being read (inNum says that
\* one is), acc the items read so far.
RECURSIVE ParseItems(_, _, _, _, _)
ParseItems(text, i, cur, inNum, acc) ==
    IF i > Len(text) THEN acc
    ELSE IF IsDigit(text[i])
        THEN ParseItems(text, i + 1, cur * 10 + DigitVal(text[i]), TRUE, acc)
    ELSE IF inNum
        THEN ParseItems(text, i + 1, 0, FALSE, Append(acc, cur))
    ELSE ParseItems(text, i + 1, 0, FALSE, acc)

\* json.loads of the text of a list of integers.
json_loads(text) == ParseItems(text, 1, 0, FALSE, <<>>)

\* json.loads(customer.prices) if customer.prices else []
DecodedPrices(customer) ==
    IF customer.prices # <<>> THEN json_loads(customer.prices) ELSE <<>>

\* --------------------------------------------------------------- calendar

IsLeap(y) == y % 4 = 0 /\ (y % 100 # 0 \/ y % 400 = 0)

DaysInMonth(y, m) ==
    IF m = 2 THEN (IF IsLeap(y) THEN 29 ELSE 28)
    ELSE IF m \in {4, 6, 9, 11} THEN 30 ELSE 31

\* Ordinal of January 1 of year y (date(y, 1, 1).toordinal()).
YearStartOrd(y) ==
    365 * (y - 1) + ((y - 1) \div 4) - ((y - 1) \div 100) + ((y - 1) \div 400) + 1

RECURSIVE MonthStartOrd(_, _)
MonthStartOrd(y, m) ==
    IF m = 1 THEN YearStartOrd(y)
    ELSE MonthStartOrd(y, m - 1) + DaysInMonth(y, m - 1)

Years == 2024..2026

YearOf(ord) ==
    CHOOSE y \in Years : YearStartOrd(y) <= ord /\ ord < YearStartOrd(y + 1)

MonthOf(ord) ==
    LET y == YearOf(ord)
    IN  CHOOSE m \in 1..12 :
            /\ MonthStartOrd(y, m) <= ord
            /\ ord < MonthStartOrd(y, m) + DaysInMonth(y, m)

OrdinalOf(dt) == dt \div 24

\* datetime.weekday(): Monday is 0.
Weekday(dt) == (OrdinalOf(dt) + 6) % 7

\* Sunday 29 December 2024, 12:00.
ClockStart == (YearStartOrd(2025) - 3) * 24 + 12

\* ------------------------------------------------------------------ state

VARIABLES
    customers,      \* Customer table
    transactions,   \* FinancialTransaction table
    codes,          \* PartnershipCode table
    users,          \* User table
    now,            \* datetime.utcnow()
    pc,             \* per worker: where it is inside a handler
    local,          \* per worker: the handler's local variables
    resp,           \* the last response sent, with the request it answers
    serial          \* history: so far every request ran alone and to its end

vars == <<customers, transactions, codes, users, now, pc, local, resp, serial>>


\* --------------------------------------------------------------- requests

\* CustomerCreate: the fields of the payload that the handlers read.
CustomerCreate ==
    [prices : PriceLists, partnership_code : Optional(CodeNames)]

NoRequest == [prices |-> <<>>, partnership_code |-> {}]

\* A response: the handler, the status, the id of the row in the body (0 when
\* the body names none; for the user endpoints the id of the request's path)
\* and, as arg, what the properties below read of the exchange: the partnership
\* code an enrollment was refused for, the caller of a user request, the body
\* of get_financials and of get_partnership_stats.
Response(op, status, id, arg) ==
    [op |-> op, status |-> status, id |-> id, arg |-> arg]

\* Depends(require_permission(flag)): the status the guard refuses the request
\* with, 0 when it lets the request through; authorized says that the caller
\* holds the flag the endpoint names.
require_permission(authorized) == IF authorized THEN 0 ELSE 403

\* The local variables of a worker that serves no request. create_customer:
\* customer (req), total_price, db_customer.id (customer_id); delete_customer:
\* customer_id, transactions (found); the partnership code handlers:
\* code_data.code (code), code_id, the row looked up (db_code); the user
\* handlers: user_data, user_id, the row as the lookup loaded it (loaded) and
\* as the handler's assignments leave it (user); get_partnership_stats: codes,
\* stats; get_financials: all_transactions, the five sums (totals), details, and the
\* number of transactions its loop has been through (position).
IdleLocal ==
    [customer_id |-> 0, total_price |-> 0, req |-> NoRequest, found |-> {},
     code |-> {}, code_id |-> 0, db_code |-> {},
     user_data |-> {}, user_id |-> 0, loaded |-> {}, user |-> {},
     codes |-> <<>>, stats |-> <<>>,
     all_transactions |-> <<>>, totals |-> {}, details |-> <<>>,
     position |-> 0]

\* ------------------------------------------------------- customer records

\* Mutant: the query without its is_active filter.
ValidPartnershipCode_AnyState(code) ==
    \E k \in DOMAIN codes : codes[k].code = code

\* create_customer: the partnership code query and its test.
ValidPartnershipCode(code) ==
    \E k \in DOMAIN codes : codes[k].code = code /\ codes[k].is_active

\* Mutant: a zero total counts as paid.
IsPaid_NonNegative(total_price) == total_price >= 0

\* is_paid=True if total_price > 0 else False
IsPaid(total_price) == total_price > 0

\* The Customer row create_customer builds; created_at defaults to the time
\* of the insert, is_deleted to False.
NewCustomer(id, req) ==
    [id |-> id,
     prices |-> json_dumps(req.prices),
     partnership_code |-> req.partnership_code,
     is_paid |-> IsPaid(Sum(req.prices)),
     created_at |-> now,
     is_deleted |-> FALSE]

\* The FinancialTransaction row create_customer builds; transaction_date
\* defaults to the time of the insert, is_deleted to False.
NewTransaction(customer_id, amount) ==
    [customer_id |-> customer_id,
     amount |-> amount,
     transaction_date |-> now,
     is_deleted |-> FALSE]

\* if total_price > 0: the second write of create_customer.
WithTransaction(ts, customer_id, total_price) ==
    IF total_price > 0
    THEN Append(ts, NewTransaction(customer_id, total_price))
    ELSE ts

\* delete_customer: customer.is_deleted = True
MarkCustomerDeleted(cs, customer_id) ==
    [cs EXCEPT ![customer_id].is_deleted = TRUE]

\* delete_customer: the rows its transaction query returns.
ActiveTransactionsOf(ts, customer_id) ==
    {t \in DOMAIN ts : ts[t].customer_id = customer_id /\ ~ts[t].is_deleted}

\* Mutant: the cascade is left out.
MarkTransactionsDeleted_Skip(ts, found) == ts

\* delete_customer: for transaction in transactions: is_deleted = True
MarkTransactionsDeleted(ts, found) ==
    [t \in DOMAIN ts |->
        IF t \in found THEN [ts[t] EXCEPT !.is_deleted = TRUE] ELSE ts[t]]

\* ------------------------------------------------------- workers, frames

StoreUnchanged == UNCHANGED <<customers, transactions, codes, users>>

\* No worker other than w is inside a handler.
Alone(w) == \A v \in Workers \ {w} : pc[v] = "idle"

\* No worker is inside a handler.
Quiet == \A w \in Workers : pc[w] = "idle"

\* The workers that are at the step named label.
At(label) == {w \in Workers : pc[w] = label}

\* Worker w goes on to the step named label with the locals l.
Goto(w, label, l) ==
    /\ pc' = [pc EXCEPT ![w] = label]
    /\ local' = [local EXCEPT ![w] = l]

\* Worker w has answered its request.
Done(w) == Goto(w, "idle", IdleLocal)

\* ------------------------------------------------ POST /api/customers

\* create_customer up to its first commit: the permission guard, the
\* partnership code query and total_price.
BeginCreateCustomer(w) ==
    /\ pc[w] = "idle"
    /\ Len(customers) + Cardinality(At("commit_customer")) < MaxCustomers
    /\ \E authorized \in BOOLEAN, req \in CustomerCreate :
        IF require_permission(authorized) # 0
        THEN /\ resp' = Response("create_customer", require_permission(authorized), 0, {})
             /\ UNCHANGED <<pc, local>>
        ELSE IF Truthy(req.partnership_code)
                /\ ~ValidPartnershipCode(Value(req.partnership_code))
        THEN /\ resp' = Response("create_customer", 400, 0, req.partnership_code)
             /\ UNCHANGED <<pc, local>>
        ELSE /\ Goto(w, "commit_customer",
                    [IdleLocal EXCEPT !.total_price = Sum(req.prices),
                                      !.req = req])
             /\ UNCHANGED resp
    /\ serial' = (serial /\ Alone(w))
    /\ StoreUnchanged
    /\ UNCHANGED now

\* create_customer's first commit: the Customer row. With a total of zero the
\* handler answers; otherwise it goes on to the transaction.
CommitCustomer(w) ==
    /\ pc[w] = "commit_customer"
    /\ LET id == Len(customers) + 1
       IN  /\ customers' = Append(customers, NewCustomer(id, local[w].req))
           /\ IF local[w].total_price > 0
              THEN /\ Goto(w, "commit_transaction",
                          [local[w] EXCEPT !.customer_id = id])
                   /\ UNCHANGED resp
              ELSE /\ resp' = Response("create_customer", 200, id, {})
                   /\ Done(w)
    /\ UNCHANGED <<transactions, codes, users, now, serial>>

\* create_customer's second commit: the FinancialTransaction row.
CommitTransaction(w) ==
    /\ pc[w] = "commit_transaction"
    /\ transactions' =
            WithTransaction(transactions, local[w].customer_id, local[w].total_price)
    /\ resp' = Response("create_customer", 200, local[w].customer_id, {})
    /\ Done(w)
    /\ UNCHANGED <<customers, codes, users, now, serial>>

\* create_customer's second commit raises (or the process dies before it):
\* the request ends without the FinancialTransaction row.
CommitFails(w) ==
    /\ pc[w] = "commit_transaction"
    /\ resp' = Response("create_customer", 500, 0, {})
    /\ Done(w)
    /\ serial' = FALSE
    /\ UNCHANGED <<customers, transactions, codes, users, now>>

\* --------------------------------- DELETE /api/customers/{customer_id}

\* delete_customer: the permission guard and the Customer lookup.
BeginDeleteCustomer(w) ==
    /\ pc[w] = "idle"
    /\ \E authorized \in BOOLEAN, customer_id \in 1..(Len(customers) + 1) :
        IF require_permission(authorized) # 0
        THEN /\ resp' = Response("delete_customer", require_permission(authorized), 0, {})
             /\ UNCHANGED <<pc, local>>
        ELSE IF customer_id \notin DOMAIN customers
        THEN /\ resp' = Response("delete_customer", 404, 0, {})
             /\ UNCHANGED <<pc, local>>
        ELSE /\ Goto(w, "query_transactions",
                    [IdleLocal EXCEPT !.customer_id = customer_id])
             /\ UNCHANGED resp
    /\ serial' = (serial /\ Alone(w))
    /\ StoreUnchanged
    /\ UNCHANGED now

\* delete_customer: the query for the customer's non-deleted transactions.
QueryTransactions(w) ==
    /\ pc[w] = "query_transactions"
    /\ Goto(w, "commit_delete",
            [local[w] EXCEPT !.found =
                ActiveTransactionsOf(transactions, local[w].customer_id)])
    /\ StoreUnchanged
    /\ UNCHANGED <<now, resp, serial>>

\* delete_customer: the commit of the flags it has set.
CommitDelete(w) ==
    /\ pc[w] = "commit_delete"
    /\ customers' = MarkCustomerDeleted(customers, local[w].customer_id)
    /\ transactions' = MarkTransactionsDeleted(transactions, local[w].found)
    /\ resp' = Response("delete_customer", 200, 0, {})
    /\ Done(w)
    /\ UNCHANGED <<codes, users, now, serial>>

\* ----------------------------------------------- partnership codes

\* create_partnership_code: the query for a row with the code.
ExistingCode(code) == \E k \in DOMAIN codes : codes[k].code = code

\* The unique index on PartnershipCode.code: an insert of a code that a row
\* already holds is refused by the database.
CodeIsTaken(code) == \E k \in DOMAIN codes : codes[k].code = code

\* The PartnershipCode row create_partnership_code builds; is_active
\* defaults to True.
NewPartnershipCode(id, code) == [id |-> id, code |-> code, is_active |-> TRUE]

\* POST /api/partnership-codes up to its commit: the permission guard and the
\* query for an existing row.
BeginCreatePartnershipCode(w) ==
    /\ pc[w] = "idle"
    /\ \E authorized \in BOOLEAN, code \in CodeNames :
        IF require_permission(authorized) # 0
        THEN /\ resp' = Response("create_partnership_code", require_permission(authorized), 0, {})
             /\ UNCHANGED <<pc, local>>
        ELSE IF ExistingCode(code)
        THEN /\ resp' = Response("create_partnership_code", 400, 0, {})
             /\ UNCHANGED <<pc, local>>
        ELSE /\ Goto(w, "commit_code", [IdleLocal EXCEPT !.code = {code}])
             /\ UNCHANGED resp
    /\ serial' = (serial /\ Alone(w))
    /\ StoreUnchanged
    /\ UNCHANGED now

\* create_partnership_code's commit: the row is inserted, or, when another
\* request has inserted the code since the query, the commit raises and the
\* request ends in 500.
CommitPartnershipCode(w) ==
    /\ pc[w] = "commit_code"
    /\ LET code == Value(local[w].code)
           id == Len(codes) + 1
       IN  IF CodeIsTaken(code)
           THEN /\ resp' = Response("create_partnership_code", 500, 0, {})
                /\ UNCHANGED codes
           ELSE /\ codes' = Append(codes, NewPartnershipCode(id, code))
                /\ resp' = Response("create_partnership_code", 200, id, {})
    /\ Done(w)
    /\ UNCHANGED <<customers, transactions, users, now, serial>>

\* DELETE /api/partnership-codes/{code_id} up to its commit: the permission
\* guard and the lookup of the row.
BeginDeletePartnershipCode(w) ==
    /\ pc[w] = "idle"
    /\ \E authorized \in BOOLEAN, code_id \in 1..(Len(codes) + 1) :
        IF require_permission(authorized) # 0
        THEN /\ resp' = Response("delete_partnership_code", require_permission(authorized), 0, {})
             /\ UNCHANGED <<pc, local>>
        ELSE IF code_id \notin DOMAIN codes
        THEN /\ resp' = Response("delete_partnership_code", 404, 0, {})
             /\ UNCHANGED <<pc, local>>
        ELSE /\ Goto(w, "commit_delete_code",
                    [IdleLocal EXCEPT !.code_id = code_id,
                                      !.db_code = {codes[code_id]}])
             /\ UNCHANGED resp
    /\ serial' = (serial /\ Alone(w))
    /\ StoreUnchanged
    /\ UNCHANGED now

\* delete_partnership_code's commit: code.is_active = False is written when
\* the row was loaded active; set on a row loaded inactive, the attribute has
\* not changed and the commit writes nothing.
CommitDeletePartnershipCode(w) ==
    /\ pc[w] = "commit_delete_code"
    /\ codes' = IF Value(local[w].db_code).is_active
                THEN [codes EXCEPT ![local[w].code_id].is_active = FALSE]
                ELSE codes
    /\ resp' = Response("delete_partnership_code", 200, 0, {})
    /\ Done(w)
    /\ UNCHANGED <<customers, transactions, users, now, serial>>

\* ------------------------------------------------------------------ users

PermissionFlags ==
    {"can_manage_customers", "can_view_financials",
     "can_manage_partnership_codes", "can_view_partnership_stats",
     "can_manage_access"}

\* The fields update_user may set.
UpdateFields == PermissionFlags \cup {"is_active"}

protected_emails == {"gokhan@kampus.com", "emre@kampus.com"}

\* Mutant: the second protected address is forgotten.
IsProtected_FirstOnly(email) == email = "gokhan@kampus.com"

\* if user.email in protected_emails
IsProtected(email) == email \in protected_emails

\* UserCreate: the email and the five permission flags, here every one of
\* them granted.
UserCreate ==
    [email : Emails,
     flags : {[f \in PermissionFlags |-> TRUE]}]

\* The fields a payload provides.
Provided(user_data) == {f \in UpdateFields : user_data[f] # {}}

\* UserUpdate: each field is None unless the payload provides it. The
\* payloads drawn provide, each as true or as false or not at all, is_active
\* and one permission flag, and leave the other four flags out.
UserUpdate ==
    {d \in [UpdateFields -> Optional(BOOLEAN)] :
        Provided(d) \subseteq {"is_active", "can_view_financials"}}

\* The User row create_user builds; is_active defaults to True.
NewUser(id, user_data) ==
    [f \in UpdateFields \cup {"id", "email"} |->
        IF f = "id" THEN id
        ELSE IF f = "email" THEN user_data.email
        ELSE IF f = "is_active" THEN TRUE
        ELSE user_data.flags[f]]

\* update_user: if user_data.<field> is not None: user.<field> = ...; the
\* row object after the six assignments.
ApplyUserUpdate(user, user_data) ==
    [f \in DOMAIN user |->
        IF f \in UpdateFields /\ user_data[f] # {}
        THEN Value(user_data[f])
        ELSE user[f]]

\* db.commit() on a row the handler has assigned to: the UPDATE carries the
\* columns whose value differs from the value the lookup loaded, and the
\* other columns of the row stay as the table holds them.
Flush(row, loaded, user) ==
    [f \in DOMAIN row |-> IF user[f] # loaded[f] THEN user[f] ELSE row[f]]

\* create_user: the query for a row with the email.
ExistingUser(email) == \E i \in DOMAIN users : users[i].email = email

\* The unique index on User.email: an insert of an email that a row already
\* holds is refused by the database.
EmailIsTaken(email) == \E i \in DOMAIN users : users[i].email = email

\* POST /api/users up to its commit: the permission guard and the query for
\* an existing row.
BeginCreateUser(w) ==
    /\ pc[w] = "idle"
    /\ \E authorized \in BOOLEAN, user_data \in UserCreate :
        IF require_permission(authorized) # 0
        THEN /\ resp' = Response("create_user", require_permission(authorized), 0, {})
             /\ UNCHANGED <<pc, local>>
        ELSE IF ExistingUser(user_data.email)
        THEN /\ resp' = Response("create_user", 400, 0, {})
             /\ UNCHANGED <<pc, local>>
        ELSE /\ Goto(w, "commit_user", [IdleLocal EXCEPT !.user_data = {user_data}])
             /\ UNCHANGED resp
    /\ serial' = (serial /\ Alone(w))
    /\ StoreUnchanged
    /\ UNCHANGED now

\* create_user's commit: the row is inserted, or, when another request has
\* inserted the email since the query, the commit raises and the request
\* ends in 500.
CommitUser(w) ==
    /\ pc[w] = "commit_user"
    /\ LET user_data == Value(local[w].user_data)
           id == Len(users) + 1
       IN  IF EmailIsTaken(user_data.email)
           THEN /\ resp' = Response("create_user", 500, 0, {})
                /\ UNCHANGED users
           ELSE /\ users' = Append(users, NewUser(id, user_data))
                /\ resp' = Response("create_user", 200, id, {})
    /\ Done(w)
    /\ UNCHANGED <<customers, transactions, codes, now, serial>>

\* update_user, delete_user: the status of the refusal, 0 when the request
\* goes through. Neither the guard nor the two checks read the payload.
Refusal(authorized, user_id) ==
    IF require_permission(authorized) # 0 THEN require_permission(authorized)
    ELSE IF user_id \notin DOMAIN users THEN 404
    ELSE IF IsProtected(users[user_id].email) THEN 403
    ELSE 0

\* PUT /api/users/{user_id} up to its commit: the permission guard, the
\* lookup, the two checks and the assignments.
BeginUpdateUser(w) ==
    /\ pc[w] = "idle"
    /\ \E authorized \in BOOLEAN, user_id \in 1..(Len(users) + 1) :
        IF Refusal(authorized, user_id) # 0
        THEN /\ resp' = Response("update_user", Refusal(authorized, user_id),
                    user_id, [authorized |-> authorized])
             /\ UNCHANGED <<pc, local>>
        ELSE \E user_data \in UserUpdate :
             /\ Goto(w, "commit_update",
                    [IdleLocal EXCEPT
                        !.user_id = user_id,
                        !.user_data = {user_data},
                        !.loaded = {users[user_id]},
                        !.user = {ApplyUserUpdate(users[user_id], user_data)}])
             /\ UNCHANGED resp
    /\ serial' = (serial /\ Alone(w))
    /\ StoreUnchanged
    /\ UNCHANGED now

\* update_user's commit, and the answer.
CommitUpdateUser(w) ==
    /\ pc[w] = "commit_update"
    /\ users' = [users EXCEPT ![local[w].user_id] =
            Flush(@, Value(local[w].loaded), Value(local[w].user))]
    /\ resp' = Response("update_user", 200, local[w].user_id,
            [authorized |-> TRUE])
    /\ Done(w)
    /\ UNCHANGED <<customers, transactions, codes, now, serial>>

\* DELETE /api/users/{user_id} up to its commit: the permission guard, the
\* lookup, the two checks and user.is_active = False.
BeginDeleteUser(w) ==
    /\ pc[w] = "idle"
    /\ \E authorized \in BOOLEAN, user_id \in 1..(Len(users) + 1) :
        IF Refusal(authorized, user_id) # 0
        THEN /\ resp' = Response("delete_user", Refusal(authorized, user_id),
                    user_id, [authorized |-> authorized])
             /\ UNCHANGED <<pc, local>>
        ELSE /\ Goto(w, "commit_delete_user",
                    [IdleLocal EXCEPT
                        !.user_id = user_id,
                        !.loaded = {users[user_id]},
                        !.user = {[users[user_id] EXCEPT !.is_active = FALSE]}])
             /\ UNCHANGED resp
    /\ serial' = (serial /\ Alone(w))
    /\ StoreUnchanged
    /\ UNCHANGED now

\* delete_user's commit, and the answer.
CommitDeleteUser(w) ==
    /\ pc[w] = "commit_delete_user"
    /\ users' = [users EXCEPT ![local[w].user_id] =
            Flush(@, Value(local[w].loaded), Value(local[w].user))]
    /\ resp' = Response("delete_user", 200, local[w].user_id,
            [authorized |-> TRUE])
    /\ Done(w)
    /\ UNCHANGED <<customers, transactions, codes, now, serial>>
\* ------------------------------------------------------------- GET views

\* Where the ordering puts the row c into sorted: after every row created at
\* the same time or later.
RECURSIVE InsertByCreatedAt(_, _)
InsertByCreatedAt(sorted, c) ==
    IF sorted = <<>> THEN <<c>>
    ELSE IF Head(sorted).created_at >= c.created_at
        THEN <<Head(sorted)>> \o InsertByCreatedAt(Tail(sorted), c)
    ELSE <<c>> \o sorted

\* order_by(Customer.created_at.desc()): newest first; rows created at the
\* same time stay in the order the table scan yields them, by id.
RECURSIVE OrderByCreatedAtDesc(_, _)
OrderByCreatedAtDesc(rows, acc) ==
    IF rows = <<>> THEN acc
    ELSE OrderByCreatedAtDesc(Tail(rows), InsertByCreatedAt(acc, Head(rows)))

\* if not include_deleted: query.filter(Customer.is_deleted == False)
KeepCustomer(c, include_deleted) == include_deleted \/ ~c.is_deleted

\* GET /api/customers: the rows listed.
get_customers(include_deleted) ==
    LET Keep(c) == KeepCustomer(c, include_deleted)
    IN  OrderByCreatedAtDesc(SelectSeq(customers, Keep), <<>>)

\* GET /api/financials
today_start == OrdinalOf(now) * 24

\* Mutant: the weekday offset is added instead of subtracted.
week_start_Forward == today_start + Weekday(now) * 24

week_start == today_start - Weekday(now) * 24

month_start == MonthStartOrd(YearOf(OrdinalOf(now)), MonthOf(OrdinalOf(now))) * 24

year_start == YearStartOrd(YearOf(OrdinalOf(now))) * 24

\* Mutant: the is_deleted filter of the transaction query is left out.
NotDeleted_All(t) == TRUE

NotDeleted(t) == ~t.is_deleted

all_transactions == SelectSeq(transactions, NotDeleted)

RECURSIVE SumSince(_, _)
SumSince(ts, start) ==
    IF ts = <<>> THEN 0
    ELSE (IF Head(ts).transaction_date >= start THEN Head(ts).amount ELSE 0)
         + SumSince(Tail(ts), start)

RECURSIVE SumAmounts(_)
SumAmounts(ts) ==
    IF ts = <<>> THEN 0 ELSE Head(ts).amount + SumAmounts(Tail(ts))

daily_total == SumSince(all_transactions, today_start)

weekly_total == SumSince(all_transactions, week_start)

monthly_total == SumSince(all_transactions, month_start)

yearly_total == SumSince(all_transactions, year_start)

total == SumAmounts(all_transactions)

\* if customer and not customer.is_deleted
ShownInDetails(t) ==
    /\ t.customer_id \in DOMAIN customers
    /\ ~customers[t.customer_id].is_deleted

\* The FinancialDetail entry of the transaction t.
FinancialDetail(t) ==
    [customer_id |-> t.customer_id,
     amount |-> t.amount,
     transaction_date |-> t.transaction_date]

\* The body of the response.
FinancialResponse(totals, details) ==
    [period |-> [daily |-> totals.daily_total,
                 weekly |-> totals.weekly_total,
                 monthly |-> totals.monthly_total,
                 yearly |-> totals.yearly_total],
     details |-> details,
     total |-> totals.total]

\* GET /api/partnership-stats
StatsCustomers(code) ==
    {i \in DOMAIN customers :
        /\ customers[i].partnership_code = {code}
        /\ ~customers[i].is_deleted}

RECURSIVE SumPricesOf(_)
SumPricesOf(ids) ==
    IF ids = {} THEN 0
    ELSE LET i == CHOOSE j \in ids : TRUE
         IN  Sum(DecodedPrices(customers[i])) + SumPricesOf(ids \ {i})

\* The entry of one code: the customers query and the sum of their prices.
PartnershipStats(code) ==
    [code |-> code,
     customer_count |-> Cardinality(StatsCustomers(code)),
     total_amount |-> SumPricesOf(StatsCustomers(code))]

\* Where a stable descending sort puts e into sorted: after every entry whose
\* key is at least e's.
RECURSIVE InsertDesc(_, _)
InsertDesc(sorted, e) ==
    IF sorted = <<>> THEN <<e>>
    ELSE IF Head(sorted).total_amount >= e.total_amount
        THEN <<Head(sorted)>> \o InsertDesc(Tail(sorted), e)
    ELSE <<e>> \o sorted

RECURSIVE SortedDesc(_, _)
SortedDesc(stats, acc) ==
    IF stats = <<>> THEN acc
    ELSE SortedDesc(Tail(stats), InsertDesc(acc, Head(stats)))

\* Mutant: the stats are returned in the codes' order, unsorted.
sorted_Unsorted(stats) == stats

\* sorted(stats, key=lambda x: x.total_amount, reverse=True)
sorted(stats) == SortedDesc(stats, <<>>)

\* GET /api/partnership-stats up to its loop: the permission guard and the
\* query for the codes. With no code the loop is empty and the handler
\* answers.
BeginGetPartnershipStats(w) ==
    /\ pc[w] = "idle"
    /\ \E authorized \in BOOLEAN :
        IF require_permission(authorized) # 0
        THEN /\ resp' = Response("get_partnership_stats", require_permission(authorized), 0, {})
             /\ UNCHANGED <<pc, local>>
        ELSE IF codes = <<>>
        THEN /\ resp' = Response("get_partnership_stats", 200, 0, sorted(<<>>))
             /\ UNCHANGED <<pc, local>>
        ELSE /\ Goto(w, "query_customers", [IdleLocal EXCEPT !.codes = codes])
             /\ UNCHANGED resp
    /\ serial' = (serial /\ Alone(w))
    /\ StoreUnchanged
    /\ UNCHANGED now

\* One pass of get_partnership_stats' loop: the customers query of the next
\* code and its entry; after the last code the handler sorts and answers.
QueryCustomers(w) ==
    /\ pc[w] = "query_customers"
    /\ LET k == Len(local[w].stats) + 1
           stats == Append(local[w].stats, PartnershipStats(local[w].codes[k].code))
       IN  IF k = Len(local[w].codes)
           THEN /\ resp' = Response("get_partnership_stats", 200, 0, sorted(stats))
                /\ Done(w)
           ELSE /\ Goto(w, "query_customers", [local[w] EXCEPT !.stats = stats])
                /\ UNCHANGED resp
    /\ StoreUnchanged
    /\ UNCHANGED <<now, serial>>

\* GET /api/financials up to its loop: the permission guard, now, the
\* transactions query and the five sums. With no transaction the loop is
\* empty and the handler answers.
BeginGetFinancials(w) ==
    /\ pc[w] = "idle"
    /\ \E authorized \in BOOLEAN :
        LET totals == [daily_total |-> daily_total,
                       weekly_total |-> weekly_total,
                       monthly_total |-> monthly_total,
                       yearly_total |-> yearly_total,
                       total |-> total]
        IN  IF require_permission(authorized) # 0
            THEN /\ resp' = Response("get_financials", require_permission(authorized), 0, {})
                 /\ UNCHANGED <<pc, local>>
            ELSE IF all_transactions = <<>>
            THEN /\ resp' = Response("get_financials", 200, 0,
                        FinancialResponse(totals, <<>>))
                 /\ UNCHANGED <<pc, local>>
            ELSE /\ Goto(w, "query_customer",
                        [IdleLocal EXCEPT !.all_transactions = all_transactions,
                                          !.totals = {totals}])
                 /\ UNCHANGED resp
    /\ serial' = (serial /\ Alone(w))
    /\ StoreUnchanged
    /\ UNCHANGED now

\* One pass of get_financials' loop: the Customer lookup of the next
\* transaction and, if the customer is there and not deleted, its detail
\* entry; after the last transaction the handler answers.
QueryCustomer(w) ==
    /\ pc[w] = "query_customer"
    /\ LET k == local[w].position + 1
           transaction == local[w].all_transactions[k]
           details == IF ShownInDetails(transaction)
                      THEN Append(local[w].details, FinancialDetail(transaction))
                      ELSE local[w].details
       IN  IF k = Len(local[w].all_transactions)
           THEN /\ resp' = Response("get_financials", 200, 0,
                        FinancialResponse(Value(local[w].totals), details))
                /\ Done(w)
           ELSE /\ Goto(w, "query_customer",
                        [local[w] EXCEPT !.position = k, !.details = details])
                /\ UNCHANGED resp
    /\ StoreUnchanged
    /\ UNCHANGED <<now, serial>>

\* The clock moves on by twelve hours.
Tick ==
    /\ now < ClockStart + MaxTicks * 12
    /\ now' = now + 12
    /\ UNCHANGED <<customers, transactions, codes, users, pc, local, resp, serial>>

\* --------------------------------------------------------- specifications

Init ==
    /\ customers = <<>>
    /\ transactions = <<>>
    /\ codes = <<>>
    /\ users = <<>>
    /\ now = ClockStart
    /\ pc = [w \in Workers |-> "idle"]
    /\ local = [w \in Workers |-> IdleLocal]
    /\ resp = Response("none", 0, 0, {})
    /\ serial = TRUE

\* Customer requests and get_financials of several workers, interleaved at
\* their database steps.
Next ==
    \E w \in Workers :
        \/ BeginCreateCustomer(w)
        \/ CommitCustomer(w)
        \/ CommitTransaction(w)
        \/ CommitFails(w)
        \/ BeginDeleteCustomer(w)
        \/ QueryTransactions(w)
        \/ CommitDelete(w)
        \/ BeginGetFinancials(w)
        \/ QueryCustomer(w)

Spec == Init /\ [][Next]_vars

\* Enrollments and partnership code requests of several workers, interleaved
\* at their database steps.
NextCodes ==
    \E w \in Workers :
        \/ BeginCreateCustomer(w)
        \/ CommitCustomer(w)
        \/ CommitTransaction(w)
        \/ CommitFails(w)
        \/ BeginCreatePartnershipCode(w)
        \/ CommitPartnershipCode(w)
        \/ BeginDeletePartnershipCode(w)
        \/ CommitDeletePartnershipCode(w)

SpecCodes == Init /\ [][NextCodes]_vars

\* The stores get_partnership_stats is run on: codes with distinct names,
\* some deactivated; up to MaxCustomers customers, each enrolled with no code
\* or the code of a row; a paid customer's transaction present or (its commit
\* having failed) missing.
InitStats ==
    /\ now = ClockStart
    /\ \E m \in 0..Cardinality(CodeNames) :
        \E names \in [1..m -> CodeNames], active \in [1..m -> BOOLEAN] :
            /\ \A i, j \in 1..m : i # j => names[i] # names[j]
            /\ codes = [k \in 1..m |->
                    [NewPartnershipCode(k, names[k]) EXCEPT !.is_active = active[k]]]
    /\ \E n \in 0..MaxCustomers :
        \E reqs \in [1..n -> CustomerCreate], written \in [1..n -> BOOLEAN] :
            LET Written(t) == t.amount > 0 /\ written[t.customer_id]
            IN  /\ \A i \in 1..n :
                    /\ reqs[i].partnership_code # {} =>
                            ExistingCode(Value(reqs[i].partnership_code))
                    /\ ~IsPaid(Sum(reqs[i].prices)) => written[i]
                /\ customers = [i \in 1..n |-> NewCustomer(i, reqs[i])]
                /\ transactions =
                        SelectSeq([i \in 1..n |->
                            NewTransaction(i, Sum(reqs[i].prices))], Written)
    /\ users = <<>>
    /\ pc = [w \in Workers |-> "idle"]
    /\ local = [w \in Workers |-> IdleLocal]
    /\ resp = Response("none", 0, 0, {})
    /\ serial = TRUE

\* get_partnership_stats read on any such store, with customers deleted
\* beside it.
NextStats ==
    \E w \in Workers :
        \/ BeginGetPartnershipStats(w)
        \/ QueryCustomers(w)
        \/ BeginDeleteCustomer(w)
        \/ QueryTransactions(w)
        \/ CommitDelete(w)

SpecStats == InitStats /\ [][NextStats]_vars

\* The times a row may have been inserted at.
InsertTimes == {ClockStart + 12 * k : k \in 0..MaxTicks}

\* The stores get_financials is run on: up to MaxRows enrollments, made one
\* after the other at times up to now, some of them deleted since.
InitFinancials ==
    /\ now \in InsertTimes
    /\ \E n \in 0..MaxRows :
        \E prices \in [1..n -> PriceLists],
           times \in [1..n -> {t \in InsertTimes : t <= now}],
           deleted \in [1..n -> BOOLEAN] :
            LET req(i) == [NoRequest EXCEPT !.prices = prices[i]]
                row(i) == [NewTransaction(i, Sum(prices[i])) EXCEPT
                                !.transaction_date = times[i],
                                !.is_deleted = deleted[i]]
                Paid(t) == t.amount > 0
            IN  /\ \A i \in 1..(n - 1) : times[i] <= times[i + 1]
                /\ customers =
                        [i \in 1..n |->
                            [NewCustomer(i, req(i)) EXCEPT
                                !.created_at = times[i],
                                !.is_deleted = deleted[i]]]
                /\ transactions = SelectSeq([i \in 1..n |-> row(i)], Paid)
    /\ codes = <<>>
    /\ users = <<>>
    /\ pc = [w \in Workers |-> "idle"]
    /\ local = [w \in Workers |-> IdleLocal]
    /\ resp = Response("none", 0, 0, {})
    /\ serial = TRUE

\* get_financials read at any time on any such store.
NextFinancials ==
    \/ \E w \in Workers :
        \/ BeginGetFinancials(w)
        \/ QueryCustomer(w)
    \/ Tick

SpecFinancials == InitFinancials /\ [][NextFinancials]_vars

\* User management requests of several workers, interleaved at their
\* database steps.
NextUsers ==
    \E w \in Workers :
        \/ BeginCreateUser(w)
        \/ CommitUser(w)
        \/ BeginUpdateUser(w)
        \/ CommitUpdateUser(w)
        \/ BeginDeleteUser(w)
        \/ CommitDeleteUser(w)

SpecUsers == Init /\ [][NextUsers]_vars

\* ----------------------------------------------------------------- claims

\* Non-deleted customers whose partnership_code is code, leaving out the
\* customer with id except.
Referencing(code, except) ==
    {i \in DOMAIN customers :
        /\ i # except
        /\ ~customers[i].is_deleted
        /\ customers[i].partnership_code # {}
        /\ Value(customers[i].partnership_code) = code}

\* The sum over ids of the customers' decoded prices.
PriceTotal(ids) ==
    LET f[S \in SUBSET ids] ==
            IF S = {} THEN 0
            ELSE LET i == CHOOSE j \in S : TRUE
                 IN  Sum(json_loads(customers[i].prices)) + f[S \ {i}]
    IN  f[ids]

CodeIndex(code) == CHOOSE k \in DOMAIN codes : codes[k].code = code

TransactionsOf(customer_id) ==
    {t \in DOMAIN transactions : transactions[t].customer_id = customer_id}

\* The detail list get_financials returns when it runs alone on the store.
ListedDetails == SelectSeq(all_transactions, ShownInDetails)

\* The entries get_partnership_stats collects when it runs alone on the
\* store.
ListedStats == [k \in DOMAIN codes |-> PartnershipStats(codes[k].code)]

\* C3 as stated: a customer that delete_customer has deleted is not in the
\* default listing, not in the financial detail list and not counted by any
\* partnership-stats entry, every transaction referencing it is deleted, and
\* its row is still listed with include_deleted = true.
Original_C3 ==
    \A id \in DOMAIN customers :
        customers[id].is_deleted =>
            LET listed == get_customers(FALSE)
                kept == get_customers(TRUE)
                entries == ListedStats
            IN  /\ \A j \in DOMAIN listed : listed[j].id # id
                /\ \E j \in DOMAIN kept : kept[j].id = id
                /\ \A j \in DOMAIN ListedDetails :
                        ListedDetails[j].customer_id # id
                /\ \A t \in TransactionsOf(id) : transactions[t].is_deleted
                /\ \A j \in DOMAIN entries :
                    /\ entries[j].customer_count
                         = Cardinality(Referencing(entries[j].code, id))
                    /\ entries[j].total_amount
                         = PriceTotal(Referencing(entries[j].code, id))

\* After requests that ran one at a time, the stats answered hold one entry
\* per code row, with the count and the summed prices of the non-deleted
\* customers referencing the code.
StatsOfTheStore ==
    (serial /\ Quiet /\ resp.op = "get_partnership_stats" /\ resp.status = 200) =>
        LET entries == resp.arg
        IN  /\ Len(entries) = Len(codes)
            /\ \A k \in DOMAIN codes : \E j \in DOMAIN entries :
                /\ entries[j].code = codes[k].code
                /\ entries[j].customer_count
                     = Cardinality(Referencing(codes[k].code, 0))
                /\ entries[j].total_amount
                     = PriceTotal(Referencing(codes[k].code, 0))

\* C5: each entry get_partnership_stats collects holds, for the next code of
\* its codes query, active or not, the count and the summed prices of the
\* non-deleted customers referencing it; the answer holds one entry per code
\* read, ordered by total_amount descending, ties in the codes' order; and
\* when the requests ran one at a time the answer is that of the store: one
\* entry per code row, with the counts and sums of the customers table.
Theorem_C5 ==
    [][
        /\ \A w \in Workers :
            (pc[w] = "query_customers" /\ local'[w] # local[w]) =>
                LET read == local[w].codes
                    code == read[Len(local[w].stats) + 1].code
                    entry == [code |-> code,
                              customer_count |-> Cardinality(Referencing(code, 0)),
                              total_amount |-> PriceTotal(Referencing(code, 0))]
                    collected == Append(local[w].stats, entry)
                    Place(c) == CHOOSE k \in DOMAIN read : read[k].code = c
                    entries == resp'.arg
                IN  IF pc'[w] = "query_customers"
                    THEN local'[w].stats = collected /\ resp' = resp
                    ELSE /\ resp'.op = "get_partnership_stats"
                         /\ resp'.status = 200
                         /\ Len(collected) = Len(read)
                         /\ Len(entries) = Len(read)
                         /\ \A k \in DOMAIN collected :
                                \E j \in DOMAIN entries : entries[j] = collected[k]
                         /\ \A i, j \in DOMAIN entries :
                            i < j =>
                                /\ entries[i].total_amount >= entries[j].total_amount
                                /\ entries[i].total_amount = entries[j].total_amount
                                     => Place(entries[i].code) < Place(entries[j].code)
        /\ StatsOfTheStore'
    ]_vars

\* The second code leads the stats through a customer enrolled before it was
\* deactivated, and a deleted customer references the first code.
Witness_C5 ==
    /\ Len(codes) = 2
    /\ ~codes[2].is_active
    /\ serial
    /\ Quiet
    /\ resp.op = "get_partnership_stats"
    /\ resp.status = 200
    /\ resp.arg[1].code = codes[2].code
    /\ resp.arg[1].customer_count = 1
    /\ \E i \in DOMAIN customers :
        /\ customers[i].is_deleted
        /\ customers[i].is_paid
        /\ customers[i].partnership_code = {codes[1].code}

\* C8: an enrollment answered 400 supplied a code that no active row holds,
\* and the step writes no row; an enrollment that goes on past the code check
\* supplied no code or the code of an active row; a Customer row is written
\* only by an enrollment that went past the check, with the code it supplied,
\* and a transaction only by such an enrollment; no step changes the code a
\* customer holds.
Theorem_C8 ==
    [][
        /\ (resp' # resp /\ resp'.op = "create_customer" /\ resp'.status = 400) =>
            /\ resp'.arg # {}
            /\ ~\E k \in DOMAIN codes :
                    codes[k].code = Value(resp'.arg) /\ codes[k].is_active
            /\ customers' = customers
            /\ transactions' = transactions
        /\ \A w \in Workers :
            (pc[w] = "idle" /\ pc'[w] = "commit_customer") =>
                LET code == local'[w].req.partnership_code
                IN  /\ \/ code = {}
                        \/ \E k \in DOMAIN codes :
                            codes[k].code = Value(code) /\ codes[k].is_active
                    /\ customers' = customers
                    /\ transactions' = transactions
        /\ \A w \in Workers :
            (pc[w] = "commit_customer" /\ pc'[w] # "commit_customer") =>
                /\ Len(customers') = Len(customers) + 1
                /\ customers'[Len(customers')].partnership_code
                     = local[w].req.partnership_code
        /\ Len(customers') # Len(customers) =>
            \E w \in Workers :
                pc[w] = "commit_customer" /\ pc'[w] # "commit_customer"
        /\ Len(transactions') # Len(transactions) =>
            \E w \in Workers :
                pc[w] = "commit_transaction" /\ pc'[w] = "idle"
        /\ \A i \in DOMAIN customers :
            /\ i \in DOMAIN customers'
            /\ customers'[i].partnership_code = customers[i].partnership_code
    ]_vars

\* An enrollment was refused for a deactivated code that an earlier customer
\* still references.
Witness_C8 ==
    /\ resp.op = "create_customer"
    /\ resp.status = 400
    /\ \E k \in DOMAIN codes :
        /\ resp.arg = {codes[k].code}
        /\ ~codes[k].is_active
        /\ \E i \in DOMAIN customers :
               customers[i].partnership_code = {codes[k].code}

\* C4 as stated: the window sums are nested,
\* yearly >= monthly >= weekly >= daily >= 0 and total >= yearly.
Original_C4 ==
    /\ yearly_total >= monthly_total
    /\ monthly_total >= weekly_total
    /\ weekly_total >= daily_total
    /\ daily_total >= 0
    /\ total >= yearly_total

\* C4 amended: yearly >= monthly >= daily >= 0, weekly >= daily, and total is
\* at least yearly and weekly; monthly >= weekly and yearly >= weekly hold
\* when the week began inside the current month, respectively year.
Theorem_C4 ==
    /\ yearly_total >= monthly_total
    /\ monthly_total >= daily_total
    /\ weekly_total >= daily_total
    /\ daily_total >= 0
    /\ total >= yearly_total
    /\ total >= weekly_total
    /\ week_start >= month_start => monthly_total >= weekly_total
    /\ week_start >= year_start => yearly_total >= weekly_total

\* The current week began before the current month, with money received in
\* between and money received before the week.
Witness_C4 ==
    /\ resp.op = "get_financials"
    /\ resp.status = 200
    /\ resp.arg.period.weekly = weekly_total
    /\ resp.arg.period.monthly = monthly_total
    /\ week_start < month_start
    /\ weekly_total > monthly_total
    /\ total > weekly_total

LiveCustomers == {i \in DOMAIN customers : ~customers[i].is_deleted}

\* C10: when every request so far ran alone and to its end, the total
\* get_financials has answered is the sum of the prices of the non-deleted
\* customers and the sum of the amounts of the detail list it answered; with
\* every customer deleted, the total and the window sums are 0.
Theorem_C10 ==
    (serial /\ Quiet /\ resp.op = "get_financials" /\ resp.status = 200) =>
        /\ resp.arg.total = PriceTotal(LiveCustomers)
        /\ resp.arg.total = SumAmounts(resp.arg.details)
        /\ LiveCustomers = {} =>
            /\ resp.arg.total = 0
            /\ resp.arg.period.daily = 0
            /\ resp.arg.period.weekly = 0
            /\ resp.arg.period.monthly = 0
            /\ resp.arg.period.yearly = 0

\* get_financials has answered after every customer had been deleted, one of
\* them a paid one, by requests that ran one at a time.
Witness_C10 ==
    /\ serial
    /\ Quiet
    /\ resp.op = "get_financials"
    /\ resp.status = 200
    /\ Len(customers) >= 2
    /\ LiveCustomers = {}
    /\ \E t \in DOMAIN transactions : transactions[t].amount > 0

\* Users whose email is one of the two protected addresses.
ProtectedUsers ==
    {i \in DOMAIN users :
        users[i].email = "gokhan@kampus.com" \/ users[i].email = "emre@kampus.com"}

\* C6: an update_user or delete_user call on a user with a protected email
\* is answered 403 and changes no user; no such call goes on to a commit; no
\* step changes a protected user's record.
Theorem_C6 ==
    [][
        /\ (resp'.op \in {"update_user", "delete_user"}
                /\ resp'.id \in ProtectedUsers) =>
            /\ resp'.status = 403
            /\ users' = users
        /\ \A w \in Workers :
            pc'[w] \in {"commit_update", "commit_delete_user"} =>
                local'[w].user_id \notin ProtectedUsers
        /\ \A i \in ProtectedUsers :
            /\ i \in DOMAIN users'
            /\ users'[i] = users[i]
    ]_vars

\* An authorized caller's update of a protected user that holds every
\* permission has been refused.
Witness_C6 ==
    /\ resp.op = "update_user"
    /\ resp.status = 403
    /\ resp.arg.authorized
    /\ resp.id \in ProtectedUsers
    /\ users[resp.id].can_manage_access
    /\ users[resp.id].is_active

\* C7 as stated: when update_user on an existing user without a protected
\* email answers, a field the payload leaves out has kept its value, a field
\* it provides has the value provided, and no other user's record has
\* changed.
Original_C7 ==
    [][
        \A w \in Workers :
            (pc[w] = "commit_update" /\ pc'[w] = "idle") =>
                LET id == local[w].user_id
                    user_data == Value(local[w].user_data)
                IN  /\ resp'.status = 200
                    /\ DOMAIN users' = DOMAIN users
                    /\ \A f \in UpdateFields :
                        users'[id][f] =
                            IF user_data[f] = {} THEN users[id][f]
                            ELSE Value(user_data[f])
                    /\ \A j \in DOMAIN users : j # id => users'[j] = users[j]
    ]_vars


\* C1: an enrollment that answers 200, with T the sum of the prices
\* submitted, leaves a customer that holds those prices and is paid exactly
\* if T > 0, with one transaction of amount T if T > 0 and with none if
\* T = 0.
Theorem_C1 ==
    [][
        \A w \in Workers :
            (/\ pc[w] \in {"commit_customer", "commit_transaction"}
             /\ pc'[w] = "idle"
             /\ resp'.status = 200) =>
                LET T == Sum(local[w].req.prices)
                    id == resp'.id
                    created == {t \in DOMAIN transactions' :
                                    transactions'[t].customer_id = id}
                IN  /\ resp'.op = "create_customer"
                    /\ id \in DOMAIN customers'
                    /\ json_loads(customers'[id].prices) = local[w].req.prices
                    /\ customers'[id].is_paid <=> T > 0
                    /\ T > 0 =>
                        /\ Cardinality(created) = 1
                        /\ \A t \in created : transactions'[t].amount = T
                    /\ T = 0 => created = {}
    ]_vars

\* The second of two enrollments has answered, with prices 50 and 70, after
\* an enrollment with a zero total.
Witness_C1 ==
    /\ resp.op = "create_customer"
    /\ resp.status = 200
    /\ resp.id = 2
    /\ json_loads(customers[2].prices) = <<50, 70>>
    /\ \E t \in TransactionsOf(2) : transactions[t].amount = 120
    /\ ~customers[1].is_paid

\* C2 as stated: in every state, a customer that is paid has a transaction
\* referencing it.
Original_C2 ==
    \A i \in DOMAIN customers :
        customers[i].is_paid => TransactionsOf(i) # {}

\* C9 as stated: in every state, no transaction that is not deleted
\* references a deleted customer.
Original_C9 ==
    \A t \in DOMAIN transactions :
        ~transactions[t].is_deleted =>
            ~customers[transactions[t].customer_id].is_deleted

====
